---------------------------- MODULE Spec2Model ----------------------------
(***************************************************************************)
(* Model of the intent orchestrator (src/src/orchestrator/orchestrator.py) *)
(* and of the gesture agent (src/gestures/gesture_server.py).              *)
(*                                                                         *)
(* Text is modelled at character level: a Python str is a sequence of      *)
(* one-character strings, so that lower(), strip(), split(), ' '.join()    *)
(* and the substring test `trigger in recent_phrase` are computed the way  *)
(* the interpreter computes them.  Time is the value of time.time() in     *)
(* whole seconds; a synchronous handler runs within one clock value.       *)
(***************************************************************************)
EXTENDS Integers, Sequences, FiniteSets, TLC

(***************************************************************************)
(* Bounds of the model.                                                    *)
(***************************************************************************)
MaxTime == 2        \* the clock runs from 0 to MaxTime in Spec
MaxWordTime == 4    \* and from 0 to MaxWordTime in WordSpec and CapSpec
MaxMsgs == 2        \* messages handled in one behaviour
Epoch == 2          \* the gesture agent's clock when it starts (time.time()
                    \* is far above gesture_cooldown; so is any Epoch >= 2)
MaxGestureTicks == 3 \* the gesture agent's clock runs to Epoch + MaxGestureTicks
MaxFrames == 3      \* frames the gesture agent processes in one behaviour

(***************************************************************************)
(* Program constants.                                                      *)
(***************************************************************************)
BufferMaxLen == 10
PhraseWindow == 3
Cooldown == 2
GestureCooldown == 1

(***************************************************************************)
(* Python values.                                                          *)
(***************************************************************************)
None == 0

SPACE == " "

\* str.lower() on one character (the upper-case letters the inputs use).
LowerChar(ch) ==
    CASE ch = "N" -> "n"
      [] ch = "E" -> "e"
      [] ch = "X" -> "x"
      [] ch = "T" -> "t"
      [] ch = "O" -> "o"
      [] ch = "P" -> "p"
      [] OTHER -> ch

\* str.lower()
Lower(s) == [i \in 1..Len(s) |-> LowerChar(s[i])]

\* str.strip(): leading and trailing whitespace removed.
RECURSIVE LStrip(_)
LStrip(s) == IF s # <<>> /\ Head(s) = SPACE THEN LStrip(Tail(s)) ELSE s

RECURSIVE RStrip(_)
RStrip(s) ==
    IF s # <<>> /\ s[Len(s)] = SPACE THEN RStrip(SubSeq(s, 1, Len(s) - 1)) ELSE s

Strip(s) == RStrip(LStrip(s))

\* str.split(): the maximal runs of non-whitespace characters, in order.
RECURSIVE SplitFrom(_, _, _)
SplitFrom(s, cur, acc) ==
    IF s = <<>>
    THEN IF cur = <<>> THEN acc ELSE Append(acc, cur)
    ELSE IF Head(s) = SPACE
         THEN SplitFrom(Tail(s), <<>>, IF cur = <<>> THEN acc ELSE Append(acc, cur))
         ELSE SplitFrom(Tail(s), Append(cur, Head(s)), acc)

Split(s) == SplitFrom(s, <<>>, <<>>)

\* ' '.join(words)
RECURSIVE Join(_)
Join(words) ==
    IF words = <<>> THEN <<>>
    ELSE IF Len(words) = 1 THEN Head(words)
    ELSE Head(words) \o <<SPACE>> \o Join(Tail(words))

\* `sub in s` for two str values: sub is a contiguous substring of s.
Contains(sub, s) ==
    \E i \in 0..(Len(s) - Len(sub)) : \A j \in 1..Len(sub) : s[i + j] = sub[j]

(***************************************************************************)
(* The words and phrases of the rule table and of the inputs.              *)
(***************************************************************************)
W_open == <<"o", "p", "e", "n">>
W_presentation == <<"p", "r", "e", "s", "e", "n", "t", "a", "t", "i", "o", "n">>
W_next == <<"n", "e", "x", "t">>
W_previous == <<"p", "r", "e", "v", "i", "o", "u", "s">>
W_cardboard == <<"c", "a", "r", "d", "b", "o", "a", "r", "d">>
W_person == <<"p", "e", "r", "s", "o", "n">>
W_bottle == <<"b", "o", "t", "t", "l", "e">>
W_hello == <<"h", "e", "l", "l", "o">>
W_source == <<"s", "o", "u", "r", "c", "e">>
W_content == <<"c", "o", "n", "t", "e", "n", "t">>

P_open_presentation == W_open \o <<SPACE>> \o W_presentation

NoParams == [k \in {} |-> <<>>]

Rule(trigger, action, params) ==
    [trigger |-> trigger, action |-> action, params |-> params]

\* self.rules
rules ==
    [s \in {"audio_stt", "vision_vlm", "gesture"} |->
        CASE s = "audio_stt" ->
               << Rule(P_open_presentation, "OPEN_PRESENTATION", NoParams),
                  Rule(W_next, "NEXT_SLIDE", NoParams),
                  Rule(W_previous, "PREVIOUS_SLIDE", NoParams) >>
          [] s = "vision_vlm" ->
               << Rule(W_cardboard, "ZOOM_ON_OBJECT", [target |-> W_cardboard]),
                  Rule(W_person, "ZOOM_ON_OBJECT", [target |-> W_person]),
                  Rule(W_bottle, "ZOOM_ON_OBJECT", [target |-> W_bottle]) >>
          [] s = "gesture" ->
               << Rule(W_next, "NEXT_SLIDE", NoParams),
                  Rule(W_previous, "PREVIOUS_SLIDE", NoParams) >> ]

Actions == {"OPEN_PRESENTATION", "NEXT_SLIDE", "PREVIOUS_SLIDE", "ZOOM_ON_OBJECT"}

\* The actions _delegate_action_async forwards to the PDF server.
SlideActions == {"OPEN_PRESENTATION", "NEXT_SLIDE", "PREVIOUS_SLIDE", "GO_TO_SLIDE"}


(***************************************************************************)
(* Inbound messages.  A message is the text of one websocket frame; what   *)
(* json.loads makes of it is its `json` kind: "invalid" (not JSON),        *)
(* "number" (a JSON number), "string" (a JSON string, `text`) or "object"  *)
(* (`fields`: key -> value).  A value is [t, v]: its JSON type and, for a  *)
(* string, its characters.                                                 *)
(***************************************************************************)
JStr(v) == [t |-> "str", v |-> v]
JNum == [t |-> "num", v |-> <<"5">>]
JNull == [t |-> "null", v |-> <<>>]

NoFields == [k \in {} |-> JNull]

Msg(json, text, fields) == [json |-> json, text |-> text, fields |-> fields]

Event(source, content) ==
    Msg("object", <<>>, [k \in {"source", "content"} |->
                            IF k = "source" THEN source ELSE JStr(content)])

\* " Open Presentation NEXT ": upper case, surrounding blanks, three words.
P_Open_Presentation_NEXT ==
    <<SPACE, "O">> \o SubSeq(W_open, 2, 4) \o <<SPACE, SPACE, "P">>
        \o SubSeq(W_presentation, 2, 12) \o <<SPACE, "N", "E", "X", "T", SPACE>>

P_cardboard_person == W_cardboard \o <<SPACE>> \o W_person

\* The messages the perception agents send in Spec: events of every source,
\* one phrase that holds the triggers of two rules, and malformed frames.
Messages ==
    << Event(JStr("audio_stt"), P_Open_Presentation_NEXT),
       Event(JStr("gesture"), W_next),
       Event(JStr("vision_vlm"), P_cardboard_person),
       Event(JStr("other"), W_next),
       Event(JStr("audio_stt"), <<SPACE>>),
       Event(JNull, W_next),
       Msg("invalid", <<>>, NoFields),
       Msg("number", <<>>, NoFields),
       Msg("string", W_hello, NoFields),
       Msg("string", W_source \o <<SPACE>> \o W_content, NoFields),
       Msg("object", <<>>, [k \in {"source"} |-> JStr("audio_stt")]),
       Msg("object", <<>>, [k \in {"content"} |-> JStr(W_next)]),
       Msg("object", <<>>, [k \in {"source", "content"} |->
                               IF k = "source" THEN JStr("audio_stt") ELSE JNum]) >>

\* "a next c d e f g h i j k": eleven words in one transcript.
P_eleven_words ==
    <<"a", SPACE>> \o W_next \o
    <<SPACE, "c", SPACE, "d", SPACE, "e", SPACE, "f", SPACE, "g", SPACE, "h",
      SPACE, "i", SPACE, "j", SPACE, "k">>

\* The messages of WordSpec: the speech agent's words, one per event.
WordMessages ==
    << Event(JStr("audio_stt"), W_open),
       Event(JStr("audio_stt"), W_presentation),
       Event(JStr("audio_stt"), W_next) >>

\* The messages of CapSpec: words, and one transcript of more words than
\* the phrase buffer holds.
CapMessages ==
    << Event(JStr("audio_stt"), W_open),
       Event(JStr("audio_stt"), W_next),
       Event(JStr("audio_stt"), P_eleven_words) >>

\* The messages of SourceSpec: one event of each source, the speech agent's
\* first.
SourceMessages ==
    << Event(JStr("audio_stt"), P_Open_Presentation_NEXT),
       Event(JStr("gesture"), W_next),
       Event(JStr("vision_vlm"), P_cardboard_person),
       Event(JStr("other"), W_next) >>

\* The messages of RuleSpec: events of three sources, two of them with
\* rules; the speech agent's words build phrases that hold two triggers.
RuleMessages ==
    << Event(JStr("audio_stt"), W_next),
       Event(JStr("audio_stt"), W_previous),
       Event(JStr("gesture"), W_next),
       Event(JStr("other"), W_next) >>

(***************************************************************************)
(* State.                                                                  *)
(***************************************************************************)
VARIABLES
    now,                    \* time.time(), in seconds
    pc,                     \* where main() is: "start" or "serving"
    peerUp,                 \* the PDF server accepts connections
    openSockets,            \* the open connections to the PDF server (ids)
    connectAttempts,        \* calls of websockets.connect so far
    PDF_SERVER_CONNECTION,  \* None or the id of a connection object
    CONNECTED_CLIENTS,      \* the perception agents whose handler is running
    phrase_buffer,          \* deque of words
    phrase_timestamps,      \* deque of arrival times
    triggered_phrases,      \* dict: action -> time of its last trigger
    tasks,                  \* the dispatch tasks created and not finished
    nMsgs,                  \* messages handled so far
    dispatch_log            \* every task created: <<action, time>>

\* The gesture agent (gesture_server.py), one client session.
VARIABLES
    g_time,                 \* its time.time(), in seconds
    g_pc,                   \* where gesture_server is: "idle" (no client yet),
                            \* "recv", "sending", "reconnect" or "ended"
    targetUp,               \* the target (the orchestrator) accepts connections
    targetOpen,             \* the open connections to the target (ids)
    targetAttempts,         \* calls of connect_to_target so far
    target_websocket,       \* None or the id of a connection object
    last_gesture_time,
    current_time,
    tracks,                 \* controller.tracks: [action, fresh] per track
    trk,                    \* the track being handled (0: none)
    sent_to_target,         \* the contents sent on the target connection
    handled,                \* every gesture handled: [content, time, frame]
    nFrames                 \* frames processed so far

orchestratorState ==
    << now, pc, peerUp, openSockets, connectAttempts, PDF_SERVER_CONNECTION,
       CONNECTED_CLIENTS, phrase_buffer, phrase_timestamps, triggered_phrases,
       tasks, nMsgs, dispatch_log >>

gestureVars ==
    << g_time, g_pc, targetUp, targetOpen, targetAttempts, target_websocket,
       last_gesture_time, current_time, tracks, trk, sent_to_target, handled,
       nFrames >>

vars == << orchestratorState, gestureVars >>

\* The connected perception agents (websocket connections).
Clients == {"agent1", "agent2"}

(***************************************************************************)
(* OrchestratorAgent.                                                      *)
(***************************************************************************)
\* deque.append without maxlen.
DequeAppend_Unbounded(d, x) == Append(d, x)

\* deque(maxlen=10).append
DequeAppend(d, x) ==
    IF Len(d) >= BufferMaxLen THEN Append(Tail(d), x) ELSE Append(d, x)

\* _clean_old_phrases that pops nothing.
CleanOldPhrases_NoEvict(buf, ts, t) == [buf |-> buf, ts |-> ts]

\* _clean_old_phrases comparing with >= instead of >.
RECURSIVE CleanOldPhrases_Inclusive(_, _, _)
CleanOldPhrases_Inclusive(buf, ts, t) ==
    IF ts # <<>> /\ (t - ts[1]) >= PhraseWindow
    THEN CleanOldPhrases_Inclusive(Tail(buf), Tail(ts), t)
    ELSE [buf |-> buf, ts |-> ts]

\* _clean_old_phrases: [buf, ts] after popping the old entries off the front.
RECURSIVE CleanOldPhrases(_, _, _)
CleanOldPhrases(buf, ts, t) ==
    IF ts # <<>> /\ (t - ts[1]) > PhraseWindow
    THEN CleanOldPhrases(Tail(buf), Tail(ts), t)
    ELSE [buf |-> buf, ts |-> ts]

\* _get_recent_phrase, on the buffer _clean_old_phrases left.
GetRecentPhrase(buf) == Lower(Join(buf))

\* _was_recently_triggered comparing with <= instead of <.
WasRecentlyTriggered_Inclusive(trig, action, t) ==
    /\ action \in DOMAIN trig
    /\ (t - trig[action]) <= Cooldown

\* _was_recently_triggered(action), cooldown = 2.0
WasRecentlyTriggered(trig, action, t) ==
    /\ action \in DOMAIN trig
    /\ (t - trig[action]) < Cooldown

\* _mark_triggered that forgets to write the entry.
MarkTriggered_NoWrite(trig, action, t) == trig

\* _mark_triggered(action)
MarkTriggered(trig, action, t) ==
    [a \in DOMAIN trig \cup {action} |-> IF a = action THEN t ELSE trig[a]]

\* parse_message: "none" (returns None), "raise" (an exception leaves it) or
\* "data" (returns the parsed value).
ParseMessage(m) ==
    CASE m.json = "invalid" -> "none"
      [] m.json = "number" -> "raise"
      [] m.json = "string" ->
           IF ~Contains(W_source, m.text) \/ ~Contains(W_content, m.text)
           THEN "none" ELSE "data"
      [] m.json = "object" ->
           IF "source" \notin DOMAIN m.fields \/ "content" \notin DOMAIN m.fields
           THEN "none" ELSE "data"

\* bool(value) is False
Falsy(val) ==
    \/ val.t = "null"
    \/ val.t = "str" /\ val.v = ""

\* self.rules.get(source, [])
RulesGet(source) ==
    IF source.t = "str" /\ source.v \in DOMAIN rules THEN rules[source.v] ELSE <<>>

\* The words loop of apply_rules appending one timestamp for the event.
AppendWords_Unpaired(words, buf, ts, t) ==
    [buf |-> buf \o words, ts |-> Append(ts, t)]

\* The words loop of apply_rules: each word appended with its timestamp.
RECURSIVE AppendWords(_, _, _, _)
AppendWords(words, buf, ts, t) ==
    IF words = <<>> THEN [buf |-> buf, ts |-> ts]
    ELSE AppendWords(Tail(words), DequeAppend(buf, Head(words)),
                     DequeAppend(ts, t), t)

\* The rules loop of apply_rules leaving the loop at the first matching rule
\* that is on cooldown.
RECURSIVE RulesLoop_StopsOnCooldown(_, _, _, _, _, _)
RulesLoop_StopsOnCooldown(rs, source, recent_phrase, trig, fired, t) ==
    IF rs = <<>> THEN [trig |-> trig, fired |-> fired]
    ELSE LET rule == Head(rs)
             trigger == Lower(rule.trigger)
         IN IF ~Contains(trigger, recent_phrase)
            THEN RulesLoop_StopsOnCooldown(Tail(rs), source, recent_phrase,
                                           trig, fired, t)
            ELSE IF WasRecentlyTriggered(trig, rule.action, t)
            THEN [trig |-> trig, fired |-> fired]
            ELSE RulesLoop_StopsOnCooldown(Tail(rs), source, recent_phrase,
                           MarkTriggered(trig, rule.action, t),
                           Append(fired, [source |-> source.v,
                                          action |-> rule.action,
                                          params |-> rule.params,
                                          content |-> recent_phrase,
                                          pc |-> "ready",
                                          conn |-> None,
                                          sends |-> 0]), t)

\* The rules loop of apply_rules: [trig, fired], fired the tasks created.
RECURSIVE RulesLoop(_, _, _, _, _, _)
RulesLoop(rs, source, recent_phrase, trig, fired, t) ==
    IF rs = <<>> THEN [trig |-> trig, fired |-> fired]
    ELSE LET rule == Head(rs)
             trigger == Lower(rule.trigger)
         IN IF Contains(trigger, recent_phrase)
                   /\ ~WasRecentlyTriggered(trig, rule.action, t)
            THEN RulesLoop(Tail(rs), source, recent_phrase,
                           MarkTriggered(trig, rule.action, t),
                           Append(fired, [source |-> source.v,
                                          action |-> rule.action,
                                          params |-> rule.params,
                                          content |-> recent_phrase,
                                          pc |-> "ready",
                                          conn |-> None,
                                          sends |-> 0]), t)
            ELSE RulesLoop(Tail(rs), source, recent_phrase, trig, fired, t)

\* apply_rules that empties the phrase window when a rule fires.
ApplyRules_Consumes(data, buf, ts, trig, t) ==
    LET source == data.fields["source"]
        raw == data.fields["content"]
        unchanged == [raised |-> FALSE, buf |-> buf, ts |-> ts, trig |-> trig,
                      recent_phrase |-> <<>>, fired |-> <<>>]
    IN IF raw.t # "str" THEN [unchanged EXCEPT !.raised = TRUE]
       ELSE LET content == Strip(raw.v) IN
            IF Falsy(source) \/ content = <<>> THEN unchanged
            ELSE LET isAudio == source.t = "str" /\ source.v = "audio_stt"
                     added == AppendWords(Split(Lower(content)), buf, ts, t)
                     cleaned == CleanOldPhrases(added.buf, added.ts, t)
                     recent_phrase == IF isAudio THEN GetRecentPhrase(cleaned.buf)
                                      ELSE Lower(content)
                     out == RulesLoop(RulesGet(source), source, recent_phrase,
                                      trig, <<>>, t)
                     consumed == isAudio /\ out.fired # <<>>
                 IN [raised |-> FALSE,
                     buf |-> IF consumed THEN <<>>
                             ELSE IF isAudio THEN cleaned.buf ELSE buf,
                     ts |-> IF consumed THEN <<>>
                            ELSE IF isAudio THEN cleaned.ts ELSE ts,
                     trig |-> out.trig, recent_phrase |-> recent_phrase,
                     fired |-> out.fired]

\* apply_rules that takes every source for the word stream.
ApplyRules_NoIsolation(data, buf, ts, trig, t) ==
    LET source == data.fields["source"]
        raw == data.fields["content"]
        unchanged == [raised |-> FALSE, buf |-> buf, ts |-> ts, trig |-> trig,
                      recent_phrase |-> <<>>, fired |-> <<>>]
    IN IF raw.t # "str" THEN [unchanged EXCEPT !.raised = TRUE]
       ELSE LET content == Strip(raw.v) IN
            IF Falsy(source) \/ content = <<>> THEN unchanged
            ELSE LET added == AppendWords(Split(Lower(content)), buf, ts, t)
                     cleaned == CleanOldPhrases(added.buf, added.ts, t)
                     recent_phrase == GetRecentPhrase(cleaned.buf)
                     out == RulesLoop(RulesGet(source), source, recent_phrase,
                                      trig, <<>>, t)
                 IN [raised |-> FALSE, buf |-> cleaned.buf, ts |-> cleaned.ts,
                     trig |-> out.trig, recent_phrase |-> recent_phrase,
                     fired |-> out.fired]

\* apply_rules(data) at time t on the state (buf, ts, trig):
\* [raised, buf, ts, trig, recent_phrase, fired].
ApplyRules(data, buf, ts, trig, t) ==
    LET source == data.fields["source"]
        raw == data.fields["content"]
        unchanged == [raised |-> FALSE, buf |-> buf, ts |-> ts, trig |-> trig,
                      recent_phrase |-> <<>>, fired |-> <<>>]
    IN IF raw.t # "str" THEN [unchanged EXCEPT !.raised = TRUE]
       ELSE LET content == Strip(raw.v) IN
            IF Falsy(source) \/ content = <<>> THEN unchanged
            ELSE LET isAudio == source.t = "str" /\ source.v = "audio_stt"
                     added == AppendWords(Split(Lower(content)), buf, ts, t)
                     cleaned == CleanOldPhrases(added.buf, added.ts, t)
                     buf2 == IF isAudio THEN cleaned.buf ELSE buf
                     ts2 == IF isAudio THEN cleaned.ts ELSE ts
                     recent_phrase == IF isAudio THEN GetRecentPhrase(cleaned.buf)
                                      ELSE Lower(content)
                     out == RulesLoop(RulesGet(source), source, recent_phrase,
                                      trig, <<>>, t)
                 IN [raised |-> FALSE, buf |-> buf2, ts |-> ts2,
                     trig |-> out.trig, recent_phrase |-> recent_phrase,
                     fired |-> out.fired]


\* The <<action, time>> entries of the tasks an apply_rules call created.
RECURSIVE LogOf(_, _)
LogOf(fired, t) ==
    IF fired = <<>> THEN <<>>
    ELSE << <<Head(fired).action, t>> >> \o LogOf(Tail(fired), t)

\* A sequence without its i-th element.
Remove(s, i) == SubSeq(s, 1, i - 1) \o SubSeq(s, i + 1, Len(s))

(***************************************************************************)
(* Initial state: the process has started, main() has not run yet.         *)
(***************************************************************************)
Init ==
    /\ now = 0
    /\ pc = "start"
    /\ peerUp \in BOOLEAN
    /\ openSockets = {}
    /\ connectAttempts = 0
    /\ PDF_SERVER_CONNECTION = None
    /\ CONNECTED_CLIENTS = {}
    /\ phrase_buffer = <<>>
    /\ phrase_timestamps = <<>>
    /\ triggered_phrases = [a \in {} |-> 0]
    /\ tasks = <<>>
    /\ nMsgs = 0
    /\ dispatch_log = <<>>
    /\ g_time = Epoch
    /\ g_pc = "idle"
    /\ targetUp = FALSE
    /\ targetOpen = {}
    /\ targetAttempts = 0
    /\ target_websocket = None
    /\ last_gesture_time = 0
    /\ current_time = 0
    /\ tracks = <<>>
    /\ trk = 0
    /\ sent_to_target = <<>>
    /\ handled = <<>>
    /\ nFrames = 0

orchestratorVars == << phrase_buffer, phrase_timestamps, triggered_phrases >>

(***************************************************************************)
(* connect_to_pdf_server, called once by main() before the server starts:  *)
(* websockets.connect succeeds iff the PDF server is up.                   *)
(***************************************************************************)
ConnectToPdfServer ==
    /\ connectAttempts' = connectAttempts + 1
    /\ IF peerUp
       THEN /\ openSockets' = openSockets \cup {connectAttempts + 1}
            /\ PDF_SERVER_CONNECTION' = connectAttempts + 1
       ELSE /\ openSockets' = openSockets
            /\ PDF_SERVER_CONNECTION' = None

\* main(): connect to the PDF server, then serve forever.
Main ==
    /\ pc = "start"
    /\ ConnectToPdfServer
    /\ pc' = "serving"
    /\ UNCHANGED << now, peerUp, CONNECTED_CLIENTS, orchestratorVars, tasks,
                    nMsgs, dispatch_log >>
    /\ UNCHANGED gestureVars

\* connection_handler that opens a PDF server connection for every agent.
ClientConnect_Reconnects(c) ==
    /\ pc = "serving"
    /\ c \notin CONNECTED_CLIENTS
    /\ CONNECTED_CLIENTS' = CONNECTED_CLIENTS \cup {c}
    /\ ConnectToPdfServer
    /\ UNCHANGED << now, pc, peerUp, orchestratorVars, tasks, nMsgs,
                    dispatch_log >>
    /\ UNCHANGED gestureVars

\* connection_handler: a perception agent connects.
ClientConnect(c) ==
    /\ pc = "serving"
    /\ c \notin CONNECTED_CLIENTS
    /\ CONNECTED_CLIENTS' = CONNECTED_CLIENTS \cup {c}
    /\ UNCHANGED << now, pc, peerUp, openSockets, connectAttempts,
                    PDF_SERVER_CONNECTION, orchestratorVars, tasks, nMsgs,
                    dispatch_log >>
    /\ UNCHANGED gestureVars

\* connection_handler: the agent's connection closes (ConnectionClosed).
ClientClose(c) ==
    /\ c \in CONNECTED_CLIENTS
    /\ CONNECTED_CLIENTS' = CONNECTED_CLIENTS \ {c}
    /\ UNCHANGED << now, pc, peerUp, openSockets, connectAttempts,
                    PDF_SERVER_CONNECTION, orchestratorVars, tasks, nMsgs,
                    dispatch_log >>
    /\ UNCHANGED gestureVars

\* The body of connection_handler's loop raises on message m: parse_message
\* raises, or the parsed value has no .get, or its content cannot be sliced.
HandlerRaises(m) ==
    \/ ParseMessage(m) = "raise"
    \/ /\ ParseMessage(m) = "data"
       /\ \/ m.json # "object"
          \/ m.fields["content"].t # "str"

\* connection_handler whose iteration awaits the dispatched sends: no
\* message is handled while a dispatch task is unfinished.
HandleMessage_AwaitsSend(c, m) ==
    /\ tasks = <<>>
    /\ c \in CONNECTED_CLIENTS
    /\ nMsgs < MaxMsgs
    /\ nMsgs' = nMsgs + 1
    /\ IF HandlerRaises(m)
       THEN /\ CONNECTED_CLIENTS' = CONNECTED_CLIENTS \ {c}
            /\ UNCHANGED << orchestratorVars, tasks, dispatch_log >>
       ELSE IF ParseMessage(m) = "none"
       THEN UNCHANGED << CONNECTED_CLIENTS, orchestratorVars, tasks, dispatch_log >>
       ELSE LET r == ApplyRules(m, phrase_buffer, phrase_timestamps,
                                triggered_phrases, now)
            IN /\ CONNECTED_CLIENTS' =
                      IF r.raised THEN CONNECTED_CLIENTS \ {c} ELSE CONNECTED_CLIENTS
               /\ phrase_buffer' = r.buf
               /\ phrase_timestamps' = r.ts
               /\ triggered_phrases' = r.trig
               /\ tasks' = tasks \o r.fired
               /\ dispatch_log' = dispatch_log \o LogOf(r.fired, now)
    /\ UNCHANGED << now, pc, peerUp, openSockets, connectAttempts,
                    PDF_SERVER_CONNECTION >>
    /\ UNCHANGED gestureVars

\* connection_handler: one iteration of `async for message in websocket`.
HandleMessage(c, m) ==
    /\ c \in CONNECTED_CLIENTS
    /\ nMsgs < MaxMsgs
    /\ nMsgs' = nMsgs + 1
    /\ IF HandlerRaises(m)
       THEN /\ CONNECTED_CLIENTS' = CONNECTED_CLIENTS \ {c}
            /\ UNCHANGED << orchestratorVars, tasks, dispatch_log >>
       ELSE IF ParseMessage(m) = "none"
       THEN UNCHANGED << CONNECTED_CLIENTS, orchestratorVars, tasks, dispatch_log >>
       ELSE LET r == ApplyRules(m, phrase_buffer, phrase_timestamps,
                                triggered_phrases, now)
            IN /\ CONNECTED_CLIENTS' =
                      IF r.raised THEN CONNECTED_CLIENTS \ {c} ELSE CONNECTED_CLIENTS
               /\ phrase_buffer' = r.buf
               /\ phrase_timestamps' = r.ts
               /\ triggered_phrases' = r.trig
               /\ tasks' = tasks \o r.fired
               /\ dispatch_log' = dispatch_log \o LogOf(r.fired, now)
    /\ UNCHANGED << now, pc, peerUp, openSockets, connectAttempts,
                    PDF_SERVER_CONNECTION >>
    /\ UNCHANGED gestureVars

\* send_to_pdf_server, up to its await: with a connection, the command is
\* handed to its send(); with none, the function returns.
SendToPdfServer(i) ==
    IF PDF_SERVER_CONNECTION # None
    THEN /\ tasks' = [tasks EXCEPT ![i].pc = "sending",
                                   ![i].conn = PDF_SERVER_CONNECTION,
                                   ![i].sends = @ + 1]
         /\ UNCHANGED << PDF_SERVER_CONNECTION, connectAttempts, openSockets >>
    ELSE /\ tasks' = Remove(tasks, i)
         /\ UNCHANGED << PDF_SERVER_CONNECTION, connectAttempts, openSockets >>

\* _delegate_action_async without the slide-action test.
DelegateActionAsync_NoFilter(i) ==
    /\ tasks[i].pc = "ready"
    /\ SendToPdfServer(i)
    /\ UNCHANGED << now, pc, peerUp, CONNECTED_CLIENTS, orchestratorVars, nMsgs,
                    dispatch_log >>
    /\ UNCHANGED gestureVars

\* _delegate_action_async: the task's first step, up to its first await.
DelegateActionAsync(i) ==
    /\ tasks[i].pc = "ready"
    /\ IF tasks[i].action \in SlideActions
       THEN SendToPdfServer(i)
       ELSE /\ tasks' = Remove(tasks, i)
            /\ UNCHANGED << PDF_SERVER_CONNECTION, connectAttempts, openSockets >>
    /\ UNCHANGED << now, pc, peerUp, CONNECTED_CLIENTS, orchestratorVars, nMsgs,
                    dispatch_log >>
    /\ UNCHANGED gestureVars

\* send_to_pdf_server whose except clause sends the command again.
SendDone_Retry(i) ==
    /\ tasks[i].pc = "sending"
    /\ IF tasks[i].conn \in openSockets
       THEN tasks' = Remove(tasks, i)
       ELSE tasks' = [tasks EXCEPT ![i].sends = @ + 1]
    /\ UNCHANGED << now, pc, peerUp, openSockets, connectAttempts,
                    PDF_SERVER_CONNECTION, CONNECTED_CLIENTS, orchestratorVars,
                    nMsgs, dispatch_log >>
    /\ UNCHANGED gestureVars

\* send_to_pdf_server after its await: send() returned, or raised because the
\* connection is closed, and the except clause forgets the connection.
SendDone(i) ==
    /\ tasks[i].pc = "sending"
    /\ IF tasks[i].conn \in openSockets
       THEN UNCHANGED PDF_SERVER_CONNECTION
       ELSE PDF_SERVER_CONNECTION' = None
    /\ tasks' = Remove(tasks, i)
    /\ UNCHANGED << now, pc, peerUp, openSockets, connectAttempts,
                    CONNECTED_CLIENTS, orchestratorVars, nMsgs, dispatch_log >>
    /\ UNCHANGED gestureVars

(***************************************************************************)
(* Environment: the PDF server starts and stops, the clock advances.       *)
(***************************************************************************)
PeerUp ==
    /\ ~peerUp
    /\ peerUp' = TRUE
    /\ UNCHANGED << now, pc, openSockets, connectAttempts, PDF_SERVER_CONNECTION,
                    CONNECTED_CLIENTS, orchestratorVars, tasks, nMsgs,
                    dispatch_log >>
    /\ UNCHANGED gestureVars

PeerDown ==
    /\ peerUp
    /\ peerUp' = FALSE
    /\ openSockets' = {}
    /\ UNCHANGED << now, pc, connectAttempts, PDF_SERVER_CONNECTION,
                    CONNECTED_CLIENTS, orchestratorVars, tasks, nMsgs,
                    dispatch_log >>
    /\ UNCHANGED gestureVars

Tick(max) ==
    /\ now < max
    /\ now' = now + 1
    /\ UNCHANGED << pc, peerUp, openSockets, connectAttempts,
                    PDF_SERVER_CONNECTION, CONNECTED_CLIENTS, orchestratorVars,
                    tasks, nMsgs, dispatch_log >>
    /\ UNCHANGED gestureVars

Next ==
    \/ Main
    \/ \E c \in Clients : ClientConnect(c)
    \/ \E c \in Clients : ClientClose(c)
    \/ \E c \in Clients : \E k \in 1..Len(Messages) : HandleMessage(c, Messages[k])
    \/ \E i \in 1..Len(tasks) : DelegateActionAsync(i)
    \/ \E i \in 1..Len(tasks) : SendDone(i)
    \/ PeerUp
    \/ PeerDown
    \/ Tick(MaxTime)

Spec == Init /\ [][Next]_vars

\* The same system fed the speech agent's word stream.
WordNext ==
    \/ Main
    \/ \E c \in Clients : ClientConnect(c)
    \/ \E c \in Clients : ClientClose(c)
    \/ \E c \in Clients : \E k \in 1..Len(WordMessages) :
           HandleMessage(c, WordMessages[k])
    \/ \E i \in 1..Len(tasks) : DelegateActionAsync(i)
    \/ \E i \in 1..Len(tasks) : SendDone(i)
    \/ PeerUp
    \/ PeerDown
    \/ Tick(MaxWordTime)

WordSpec == Init /\ [][WordNext]_vars

\* The same system with one perception agent, the speech agent, sending
\* transcripts that overflow the phrase buffer.
CapNext ==
    \/ Main
    \/ ClientConnect("agent1")
    \/ ClientClose("agent1")
    \/ \E k \in 1..Len(CapMessages) : HandleMessage("agent1", CapMessages[k])
    \/ \E i \in 1..Len(tasks) : DelegateActionAsync(i)
    \/ \E i \in 1..Len(tasks) : SendDone(i)
    \/ PeerUp
    \/ PeerDown
    \/ Tick(MaxWordTime)

CapSpec == Init /\ [][CapNext]_vars

\* The same system fed phrases that match several rules.
RuleNext ==
    \/ Main
    \/ \E c \in Clients : ClientConnect(c)
    \/ \E c \in Clients : ClientClose(c)
    \/ \E c \in Clients : \E k \in 1..Len(RuleMessages) :
           HandleMessage(c, RuleMessages[k])
    \/ \E i \in 1..Len(tasks) : DelegateActionAsync(i)
    \/ \E i \in 1..Len(tasks) : SendDone(i)
    \/ PeerUp
    \/ PeerDown
    \/ Tick(MaxTime)

RuleSpec == Init /\ [][RuleNext]_vars

\* The same system with one connection carrying the events of every source.
SourceNext ==
    \/ Main
    \/ ClientConnect("agent1")
    \/ ClientClose("agent1")
    \/ \E k \in 1..Len(SourceMessages) :
           HandleMessage("agent1", SourceMessages[k])
    \/ \E i \in 1..Len(tasks) : DelegateActionAsync(i)
    \/ \E i \in 1..Len(tasks) : SendDone(i)
    \/ PeerUp
    \/ PeerDown
    \/ Tick(MaxTime)

SourceSpec == Init /\ [][SourceNext]_vars

(***************************************************************************)
(* The gesture agent: gesture_server serving one client that streams       *)
(* frames.  MainController is a black box: after controller(frame) the      *)
(* tracks are what they were or one of Detections.  A track is fresh when  *)
(* its tracker.time_since_update < 1.                                       *)
(***************************************************************************)
Track(action, fresh) == [action |-> action, fresh |-> fresh]

Detections ==
    << <<>>,
       << Track("FAST_SWIPE_DOWN", TRUE) >>,
       << Track("FAST_SWIPE_UP", TRUE) >>,
       << Track("None", TRUE) >>,
       << Track("TAP", TRUE), Track("FAST_SWIPE_DOWN", TRUE) >>,
       << Track("FAST_SWIPE_DOWN", FALSE), Track("FAST_SWIPE_UP", TRUE) >>,
       << Track("FAST_SWIPE_UP", TRUE), Track("FAST_SWIPE_DOWN", TRUE) >> >>

\* action_to_send for a track's action (<<>>: None).
ActionToSend(action) ==
    CASE action = "FAST_SWIPE_DOWN" -> W_next
      [] action = "FAST_SWIPE_UP" -> W_previous
      [] OTHER -> <<>>

\* The track the `for trk in controller.tracks` loop stops at: the first
\* fresh one whose action maps to a command (0: the loop runs to its end).
FirstSwipe(ts) ==
    LET S == {i \in 1..Len(ts) : /\ ts[i].fresh
                                 /\ ts[i].action # "None"
                                 /\ ActionToSend(ts[i].action) # <<>>}
    IN IF S = {} THEN 0 ELSE CHOOSE i \in S : \A j \in S : i <= j

\* The cooldown test comparing with >= instead of >.
CooldownPassed_Inclusive(cur, last) == (cur - last) >= GestureCooldown

\* (current_time - last_gesture_time) > gesture_cooldown
CooldownPassed(cur, last) == (cur - last) > GestureCooldown

\* target_websocket is not None and target_websocket.open
TargetIsOpen == target_websocket # None /\ target_websocket \in targetOpen

\* connect_to_target: websockets.connect succeeds iff the target is up.
ConnectToTarget ==
    /\ targetAttempts' = targetAttempts + 1
    /\ IF targetUp
       THEN /\ targetOpen' = targetOpen \cup {targetAttempts + 1}
            /\ target_websocket' = targetAttempts + 1
       ELSE /\ targetOpen' = targetOpen
            /\ target_websocket' = None

\* gesture_server up to its loop: a client connected, the models loaded.
GestureServerStart ==
    /\ g_pc = "idle"
    /\ IF target_websocket = None
       THEN ConnectToTarget
       ELSE UNCHANGED << targetOpen, targetAttempts, target_websocket >>
    /\ last_gesture_time' = 0
    /\ g_pc' = "recv"
    /\ UNCHANGED << g_time, targetUp, current_time, tracks, trk,
                    sent_to_target, handled, nFrames >>
    /\ UNCHANGED orchestratorState

\* gesture_server returns before its loop: a model file is missing or
\* MainController raises.
GestureServerAborts ==
    /\ g_pc = "idle"
    /\ g_pc' = "ended"
    /\ UNCHANGED << g_time, targetUp, targetOpen, targetAttempts,
                    target_websocket, last_gesture_time, current_time, tracks,
                    trk, sent_to_target, handled, nFrames >>
    /\ UNCHANGED orchestratorState

\* The loop's `continue`: recv timed out, or the message is no frame, or the
\* image does not decode.
RecvContinues ==
    /\ g_pc = "recv"
    /\ UNCHANGED gestureVars
    /\ UNCHANGED orchestratorState

\* The loop's first `break`: recv (or the decoding) raised.
RecvFails ==
    /\ g_pc = "recv"
    /\ g_pc' = "ended"
    /\ UNCHANGED << g_time, targetUp, targetOpen, targetAttempts,
                    target_websocket, last_gesture_time, current_time, tracks,
                    trk, sent_to_target, handled, nFrames >>
    /\ UNCHANGED orchestratorState

\* One frame, from recv to the first await of the gesture's handling (or to
\* the end of the iteration).  d = 0: controller(frame) leaves the tracks as
\* they were; otherwise they become Detections[d].
ProcessFrame(d) ==
    /\ g_pc = "recv"
    /\ nFrames < MaxFrames
    /\ nFrames' = nFrames + 1
    /\ current_time' = g_time
    /\ LET ts == IF d = 0 THEN tracks ELSE Detections[d]
           t == FirstSwipe(ts)
       IN /\ tracks' = ts
          /\ IF CooldownPassed(g_time, last_gesture_time) /\ t # 0
             THEN /\ trk' = t
                  /\ handled' = Append(handled,
                                       [content |-> ActionToSend(ts[t].action),
                                        time |-> g_time,
                                        frame |-> nFrames + 1])
                  /\ g_pc' = IF TargetIsOpen THEN "sending" ELSE "reconnect"
             ELSE UNCHANGED << trk, handled, g_pc >>
    /\ UNCHANGED << g_time, targetUp, targetOpen, targetAttempts,
                    target_websocket, last_gesture_time, sent_to_target >>
    /\ UNCHANGED orchestratorState

\* The end of a handled gesture: the cooldown timer is reset, the track's
\* action cleared, and `break` leaves the tracks loop.
FinishGesture ==
    /\ last_gesture_time' = current_time
    /\ tracks' = [tracks EXCEPT ![trk].action = "None"]
    /\ trk' = 0
    /\ g_pc' = "recv"

\* The awaited target_websocket.send returns, or raises because the
\* connection is closed: the except clause then awaits connect_to_target.
SendCompletes ==
    /\ g_pc = "sending"
    /\ IF target_websocket \in targetOpen
       THEN /\ sent_to_target' =
                   Append(sent_to_target, ActionToSend(tracks[trk].action))
            /\ FinishGesture
       ELSE /\ g_pc' = "reconnect"
            /\ UNCHANGED << sent_to_target, last_gesture_time, tracks, trk >>
    /\ UNCHANGED << g_time, targetUp, targetOpen, targetAttempts,
                    target_websocket, current_time, handled, nFrames >>
    /\ UNCHANGED orchestratorState

\* The awaited connect_to_target that sends the gesture when it connected.
ReconnectCompletes_ThenSends ==
    /\ g_pc = "reconnect"
    /\ ConnectToTarget
    /\ sent_to_target' =
           IF targetUp
           THEN Append(sent_to_target, ActionToSend(tracks[trk].action))
           ELSE sent_to_target
    /\ FinishGesture
    /\ UNCHANGED << g_time, targetUp, current_time, handled, nFrames >>
    /\ UNCHANGED orchestratorState

\* The awaited connect_to_target returns (after the else branch or in the
\* except clause); the gesture is not sent.
ReconnectCompletes ==
    /\ g_pc = "reconnect"
    /\ ConnectToTarget
    /\ FinishGesture
    /\ UNCHANGED << g_time, targetUp, current_time, sent_to_target, handled,
                    nFrames >>
    /\ UNCHANGED orchestratorState

\* Environment: the target starts and stops, the agent's clock advances.
TargetUp ==
    /\ ~targetUp
    /\ targetUp' = TRUE
    /\ UNCHANGED << g_time, g_pc, targetOpen, targetAttempts, target_websocket,
                    last_gesture_time, current_time, tracks, trk,
                    sent_to_target, handled, nFrames >>
    /\ UNCHANGED orchestratorState

TargetDown ==
    /\ targetUp
    /\ targetUp' = FALSE
    /\ targetOpen' = {}
    /\ UNCHANGED << g_time, g_pc, targetAttempts, target_websocket,
                    last_gesture_time, current_time, tracks, trk,
                    sent_to_target, handled, nFrames >>
    /\ UNCHANGED orchestratorState

GestureTick ==
    /\ g_time < Epoch + MaxGestureTicks
    /\ g_time' = g_time + 1
    /\ UNCHANGED << g_pc, targetUp, targetOpen, targetAttempts,
                    target_websocket, last_gesture_time, current_time, tracks,
                    trk, sent_to_target, handled, nFrames >>
    /\ UNCHANGED orchestratorState

GestureNext ==
    \/ GestureServerStart
    \/ GestureServerAborts
    \/ RecvContinues
    \/ RecvFails
    \/ \E d \in 0..Len(Detections) : ProcessFrame(d)
    \/ SendCompletes
    \/ ReconnectCompletes
    \/ TargetUp
    \/ TargetDown
    \/ GestureTick

GestureSpec == Init /\ [][GestureNext]_vars

(***************************************************************************)
(* Properties.                                                             *)
(***************************************************************************)
\* The indices of the tasks the step created.
NewTasks == (Len(tasks) + 1)..Len(tasks')

C2_Spaced ==
    \A i, j \in 1..Len(dispatch_log) :
        (i < j /\ dispatch_log[i][1] = dispatch_log[j][1])
            => dispatch_log[j][2] - dispatch_log[i][2] >= Cooldown

\* The events of two sources whose recent phrase holds the trigger 'next'.
NextEvents ==
    << Event(JStr("gesture"), W_next),
       Event(JStr("audio_stt"), P_Open_Presentation_NEXT) >>

\* The step created a task for action a and marked a now.
Dispatched(a) ==
    /\ \E i \in NewTasks : tasks'[i].action = a
    /\ triggered_phrases'[a] = now

\* A 'next' event that finds NEXT_SLIDE never marked, or marked at least
\* Cooldown ago, dispatches NEXT_SLIDE and marks it now.  (Written as
\* "the step dispatched, or it is no such step".)
C2_FiresAgain ==
    \A c \in Clients : \A k \in 1..Len(NextEvents) :
        \/ Dispatched("NEXT_SLIDE")
        \/ ~ ( /\ nMsgs' # nMsgs
               /\ "NEXT_SLIDE" \in DOMAIN triggered_phrases
                     => now - triggered_phrases["NEXT_SLIDE"] >= Cooldown
               /\ HandleMessage(c, NextEvents[k]) )

\* C2: two dispatches of the same action are never less than Cooldown
\* seconds apart, whatever became of the earlier one's send, and a matching
\* event at least Cooldown after the last mark dispatches again.
C2_CooldownGate ==
    [][C2_Spaced' /\ C2_FiresAgain]_vars

\* The same action was dispatched twice, exactly Cooldown apart.
C2_Witness ==
    \E i, j \in 1..Len(dispatch_log) :
        /\ i < j
        /\ dispatch_log[i][1] = dispatch_log[j][1]
        /\ dispatch_log[j][2] - dispatch_log[i][2] = Cooldown


\* Task i runs send_to_pdf_server while PDF_SERVER_CONNECTION is None.
SendsWhileDisconnected(i) ==
    /\ DelegateActionAsync(i)
    /\ tasks[i].action \in SlideActions
    /\ PDF_SERVER_CONNECTION = None

\* C3 (as claimed): a slide command sent while the connection is
\* Disconnected makes exactly one connect attempt; the command is dropped
\* and the state stays Disconnected if the attempt fails.
C3_OneConnectAttemptPerSend ==
    [][\A i \in 1..Len(tasks) :
          SendsWhileDisconnected(i) =>
              /\ connectAttempts' = connectAttempts + 1
              /\ ~peerUp => /\ PDF_SERVER_CONNECTION' = None
                            /\ tasks' = Remove(tasks, i)]_vars

\* C4 (as claimed): Disconnected is not absorbing; with the PDF server
\* reachable again, the next slide command's send reconnects.
C4_DisconnectedRecovers ==
    [][\A i \in 1..Len(tasks) :
          (SendsWhileDisconnected(i) /\ peerUp) =>
              PDF_SERVER_CONNECTION' # None]_vars

\* Task i's awaited send raises.
SendRaises(i) ==
    /\ SendDone(i)
    /\ tasks[i].conn \notin openSockets

\* C5: a send that raises resets PDF_SERVER_CONNECTION to None and drops the
\* command (the task ends, no task is added, no command is sent twice),
\* and leaves the connection handlers and the orchestrator's state alone.
C5_SendFailureDropsCommand ==
    [][/\ \A i \in 1..Len(tasks') : tasks'[i].sends <= 1
       /\ \A i \in 1..Len(tasks) :
             SendRaises(i) =>
                 /\ PDF_SERVER_CONNECTION' = None
                 /\ tasks' = Remove(tasks, i)
                 /\ UNCHANGED << CONNECTED_CLIENTS, orchestratorVars >>]_vars

\* A send has raised (the connection was forgotten while another task is
\* still inside its send) and an agent is connected.
C5_Witness ==
    /\ PDF_SERVER_CONNECTION = None
    /\ \E i \in 1..Len(tasks) : tasks[i].pc = "sending" /\ tasks[i].sends = 1
    /\ CONNECTED_CLIENTS # {}

\* The tasks inside send_to_pdf_server's awaited send.
Sending == {i \in 1..Len(tasks) : tasks[i].pc = "sending"}

\* C6 (as claimed): at most one dispatch task is inside the connect-or-send
\* section at any time.
C6_MutualExclusion == Cardinality(Sending) <= 1

\* C7: the orchestrator holds at most one open connection to the PDF server.
C7_AtMostOneSocket == Cardinality(openSockets) <= 1

\* Two tasks are sending on the one open connection.
C7_Witness ==
    /\ Cardinality(Sending) >= 2
    /\ PDF_SERVER_CONNECTION \in openSockets
    /\ \A i \in Sending : tasks[i].conn = PDF_SERVER_CONNECTION

ZoomLogged == \E n \in 1..Len(dispatch_log) : dispatch_log[n][1] = "ZOOM_ON_OBJECT"

\* Only tasks of slide actions ever call send(); a ZOOM_ON_OBJECT task
\* never does.
C8_OnlySlideActionsSent ==
    \A i \in 1..Len(tasks) :
        (tasks[i].sends > 0 \/ tasks[i].pc = "sending") =>
            /\ tasks[i].action \in SlideActions
            /\ tasks[i].action # "ZOOM_ON_OBJECT"

\* A vision event naming an object matches ZOOM_ON_OBJECT: off cooldown it
\* marks the action and creates its task.
C8_VisionMatches ==
    \A c \in Clients :
        \/ Dispatched("ZOOM_ON_OBJECT")
        \/ ~ ( /\ nMsgs' # nMsgs
               /\ ~WasRecentlyTriggered(triggered_phrases, "ZOOM_ON_OBJECT", now)
               /\ HandleMessage(c, Event(JStr("vision_vlm"), P_cardboard_person)) )

\* C8: every command sent to the PDF server is a slide action; a vision
\* event that names 'cardboard' or 'person' matches ZOOM_ON_OBJECT and marks
\* its cooldown, and its task sends nothing whatever the connection state.
C8_DownstreamFilter ==
    [][C8_OnlySlideActionsSent' /\ C8_VisionMatches]_vars

\* A ZOOM_ON_OBJECT task has run to its end on an open connection, and
\* nothing was sent.
C8_Witness ==
    /\ ZoomLogged
    /\ "ZOOM_ON_OBJECT" \in DOMAIN triggered_phrases
    /\ tasks = <<>>
    /\ PDF_SERVER_CONNECTION \in openSockets
    /\ \A n \in 1..Len(dispatch_log) : dispatch_log[n][1] = "ZOOM_ON_OBJECT"

\* m is not a record with a 'source' and a string 'content'.
Malformed(m) ==
    \/ m.json # "object"
    \/ "source" \notin DOMAIN m.fields
    \/ "content" \notin DOMAIN m.fields
    \/ m.fields["content"].t # "str"

\* C9 (as claimed): a malformed message changes nothing, and the handler of
\* the connection it came on keeps running.
C9_MalformedIgnored ==
    [][\A c \in Clients : \A k \in 1..Len(Messages) :
          (Malformed(Messages[k]) /\ HandleMessage(c, Messages[k])) =>
              UNCHANGED << CONNECTED_CLIENTS, orchestratorVars, tasks,
                           PDF_SERVER_CONNECTION >>]_vars

\* C10: with 'open' alone in the phrase window and OPEN_PRESENTATION off
\* cooldown, the word event 'presentation' arriving at most PhraseWindow
\* seconds after it reads the phrase 'open presentation' and dispatches
\* OPEN_PRESENTATION.
C10_OpenPresentation ==
    [][\A c \in Clients :
          ( /\ nMsgs' # nMsgs
            /\ phrase_buffer = <<W_open>>
            /\ now - phrase_timestamps[1] <= PhraseWindow
            /\ ~WasRecentlyTriggered(triggered_phrases, "OPEN_PRESENTATION", now)
            /\ HandleMessage(c, Event(JStr("audio_stt"), W_presentation)) )
          => /\ GetRecentPhrase(phrase_buffer') = P_open_presentation
             /\ \E i \in NewTasks :
                   /\ tasks'[i].action = "OPEN_PRESENTATION"
                   /\ tasks'[i].content = P_open_presentation]_vars

\* 'presentation' arrived exactly PhraseWindow seconds after 'open' and
\* OPEN_PRESENTATION was dispatched on the two-word phrase.
C10_Witness ==
    /\ phrase_buffer = <<W_open, W_presentation>>
    /\ phrase_timestamps[2] - phrase_timestamps[1] = PhraseWindow
    /\ \E i \in 1..Len(tasks) :
          /\ tasks[i].action = "OPEN_PRESENTATION"
          /\ tasks[i].content = P_open_presentation
    /\ dispatch_log = << <<"OPEN_PRESENTATION", phrase_timestamps[2]>> >>

\* The step handled an audio_stt event.
AudioStep ==
    /\ nMsgs' # nMsgs
    /\ \E c \in Clients : \E k \in 1..Len(WordMessages) :
          HandleMessage(c, WordMessages[k])

\* C11: when an audio_stt event reads the recent phrase, every word left in
\* the window arrived at most PhraseWindow seconds earlier, and the phrase
\* every dispatch is made on is the join of those words; a word event that
\* finds only words older than PhraseWindow reads a phrase of its own word
\* alone, so 'presentation' more than PhraseWindow after 'open' reads
\* 'presentation' and dispatches nothing.
C11_AgeEviction ==
    [][AudioStep =>
          /\ \A i \in 1..Len(phrase_timestamps') :
                now - phrase_timestamps'[i] <= PhraseWindow
          /\ \A i \in NewTasks :
                tasks'[i].content = Lower(Join(phrase_buffer'))
          /\ \A c \in Clients : \A k \in 1..3 :
                ( /\ phrase_timestamps # <<>>
                  /\ \A i \in 1..Len(phrase_timestamps) :
                        now - phrase_timestamps[i] > PhraseWindow
                  /\ HandleMessage(c, WordMessages[k]) )
                => /\ Lower(Join(phrase_buffer')) =
                          WordMessages[k].fields["content"].v
                   /\ (phrase_buffer = <<W_open>> /\ k = 2) =>
                          /\ phrase_buffer' = <<W_presentation>>
                          /\ NewTasks = {}]_vars

\* 'next' was dispatched at 0; 'presentation' arrived at 4, after the
\* cooldown, found 'next' too old, and NEXT_SLIDE was not dispatched again.
C11_Witness ==
    /\ dispatch_log = << <<"NEXT_SLIDE", 0>> >>
    /\ phrase_buffer = <<W_presentation>>
    /\ phrase_timestamps = <<PhraseWindow + 1>>

\* The last n elements of a sequence (all of it when it has fewer).
LastN(q, n) == IF Len(q) > n THEN SubSeq(q, Len(q) - n + 1, Len(q)) ELSE q

\* q is what is left of r after dropping elements from its front.
IsSuffix(q, r) ==
    /\ Len(q) <= Len(r)
    /\ q = SubSeq(r, Len(r) - Len(q) + 1, Len(r))

\* The ten words the window holds after 'a next c d e f g h i j k'.
TenWords ==
    << W_next, <<"c">>, <<"d">>, <<"e">>, <<"f">>, <<"g">>, <<"h">>, <<"i">>,
       <<"j">>, <<"k">> >>

\* C12: the phrase window never holds more than BufferMaxLen words; an
\* audio_stt event leaves in it the most recently appended words, in arrival
\* order: a suffix of the last BufferMaxLen of (the words it held, then the
\* event's words), and exactly those when none of them is older than
\* PhraseWindow.  Eleven words in one event leave the last ten.
C12_CapacityEviction ==
    [][/\ Len(phrase_buffer') <= BufferMaxLen
       /\ nMsgs' # nMsgs =>
             \A k \in 1..Len(CapMessages) :
                (\E c \in CONNECTED_CLIENTS : HandleMessage(c, CapMessages[k])) =>
                   LET words == Split(Lower(Strip(CapMessages[k].fields["content"].v)))
                       last == LastN(phrase_buffer \o words, BufferMaxLen)
                   IN /\ IsSuffix(phrase_buffer', last)
                      /\ (phrase_timestamps = <<>>
                            \/ now - phrase_timestamps[1] <= PhraseWindow)
                          => /\ phrase_buffer' = last
                             /\ Lower(Join(phrase_buffer')) = Lower(Join(last))
                      /\ (k = 3 /\ phrase_buffer = <<>>) =>
                             phrase_buffer' = TenWords]_vars

\* Twelve words arrived within the window, eleven in one event and then
\* 'open': the window holds the last ten, 'a' and 'next' are gone.
C12_Witness ==
    /\ phrase_buffer = Tail(TenWords) \o <<W_open>>
    /\ phrase_timestamps[10] - phrase_timestamps[1] <= PhraseWindow

\* m is an event with a source and a non-blank content: apply_rules takes it
\* to the rules.
Matched(m) ==
    /\ ~Malformed(m)
    /\ m.fields["source"].t = "str"
    /\ Strip(m.fields["content"].v) # <<>>

\* The rule table of an event's source (none for an unknown source).
RulesOf(m) ==
    IF m.fields["source"].v \in {"audio_stt", "vision_vlm", "gesture"}
    THEN rules[m.fields["source"].v] ELSE <<>>

\* The recent phrase the step read for event m.
PhraseOf(m) ==
    IF m.fields["source"].v = "audio_stt"
    THEN Lower(Join(phrase_buffer'))
    ELSE Lower(Strip(m.fields["content"].v))

\* Rule n of event m's source matches the recent phrase and its action was
\* not on cooldown when the event arrived.
Eligible(m, n) ==
    /\ Contains(Lower(RulesOf(m)[n].trigger), PhraseOf(m))
    /\ ~WasRecentlyTriggered(triggered_phrases, RulesOf(m)[n].action, now)

\* C13: every task an event creates is for a rule of the event's source
\* whose trigger is a substring of the recent phrase and whose action was not
\* on cooldown; when such rules exist, the first one in table order gets a
\* task (rules before it that match but are on cooldown do not stop it); an
\* event of a source without rules creates none.
C13_MatchSoundness ==
    [][nMsgs' # nMsgs =>
          \A k \in 1..Len(RuleMessages) :
             ( /\ Matched(RuleMessages[k])
               /\ \E c \in CONNECTED_CLIENTS : HandleMessage(c, RuleMessages[k]) ) =>
                LET m == RuleMessages[k]
                    ok == {n \in 1..Len(RulesOf(m)) : Eligible(m, n)}
                IN /\ \A i \in NewTasks :
                         /\ tasks'[i].source = m.fields["source"].v
                         /\ tasks'[i].content = PhraseOf(m)
                         /\ \E n \in ok :
                               /\ tasks'[i].action = RulesOf(m)[n].action
                               /\ tasks'[i].params = RulesOf(m)[n].params
                   /\ ok # {} =>
                         LET first == CHOOSE n \in ok : \A n2 \in ok : n <= n2
                         IN /\ NewTasks # {}
                            /\ tasks'[Len(tasks) + 1].action = RulesOf(m)[first].action
                            /\ tasks'[Len(tasks) + 1].params = RulesOf(m)[first].params
                   /\ RulesOf(m) = <<>> => NewTasks = {}]_vars

\* 'previous' arrived one second after 'next': the rule of 'next' matched
\* on cooldown, the rule of 'previous' after it was dispatched.
C13_Witness ==
    /\ dispatch_log = << <<"NEXT_SLIDE", 0>>, <<"PREVIOUS_SLIDE", 1>> >>
    /\ \E i \in 1..Len(tasks) :
          /\ tasks[i].action = "PREVIOUS_SLIDE"
          /\ tasks[i].source = "audio_stt"
          /\ tasks[i].content = W_next \o <<SPACE>> \o W_previous

\* A message of every connected agent can be handled now.
CanIngest ==
    \A c \in CONNECTED_CLIENTS : ENABLED HandleMessage(c, RuleMessages[4])

\* C14: whatever dispatch tasks are pending (not started, or inside a send
\* on an open or a closed connection), a message of every connected agent
\* can be handled; handling one leaves the pending tasks as they are, writes
\* the cooldown mark of every task it creates in the same step, and hands
\* the send to the new task (created not started, nothing sent yet); a
\* 'next' event of the speech or the gesture agent that finds NEXT_SLIDE
\* off cooldown is buffered, matched and dispatched while tasks are pending.
C14_IngestionNotBlocked ==
    /\ []((tasks # <<>> /\ nMsgs < MaxMsgs) => CanIngest)
    /\ [][(tasks # <<>> /\ nMsgs' # nMsgs) =>
            /\ SubSeq(tasks', 1, Len(tasks)) = tasks
            /\ \A i \in NewTasks :
                  /\ tasks'[i].pc = "ready" /\ tasks'[i].sends = 0
                  /\ triggered_phrases'[tasks'[i].action] = now
            /\ \A k \in {1, 3} :
                  \/ Dispatched("NEXT_SLIDE")
                  \/ ~ ( /\ ~WasRecentlyTriggered(triggered_phrases,
                                                  "NEXT_SLIDE", now)
                         /\ \E c \in CONNECTED_CLIENTS :
                               HandleMessage(c, RuleMessages[k]) )]_vars

\* While a task of an earlier event is inside a send that will fail (its
\* connection is closed), a later event of another agent was processed and
\* dispatched.
C14_Witness ==
    \E i, j \in 1..Len(tasks) :
        /\ i < j
        /\ tasks[i].pc = "sending" /\ tasks[i].conn \notin openSockets
        /\ tasks[j].pc = "ready"
        /\ tasks[j].source # tasks[i].source
        /\ \E n \in 1..Len(dispatch_log) :
              dispatch_log[n] = <<tasks[j].action, now>>

\* The events of SourceMessages whose source is not audio_stt: gesture,
\* vision_vlm, an unknown source.
OtherSources == {2, 3, 4}

\* C15: an event of a source other than audio_stt leaves phrase_buffer and
\* phrase_timestamps unchanged; the phrase its tasks are made on is its own
\* content, trimmed and lowercased, and it creates a task exactly when a rule
\* of its source matches that content off cooldown, whatever the phrase
\* window holds.
C15_WindowIsolation ==
    [][nMsgs' # nMsgs =>
          \A k \in OtherSources :
             (\E c \in CONNECTED_CLIENTS : HandleMessage(c, SourceMessages[k])) =>
                LET m == SourceMessages[k]
                    own == Lower(Strip(m.fields["content"].v))
                IN /\ UNCHANGED << phrase_buffer, phrase_timestamps >>
                   /\ \A i \in NewTasks :
                         /\ tasks'[i].content = own
                         /\ tasks'[i].source = m.fields["source"].v
                   /\ NewTasks # {} <=>
                         \E n \in 1..Len(RulesOf(m)) :
                            /\ Contains(Lower(RulesOf(m)[n].trigger), own)
                            /\ ~WasRecentlyTriggered(triggered_phrases,
                                                     RulesOf(m)[n].action, now)]_vars

\* With 'open presentation next' in the phrase window and NEXT_SLIDE off
\* cooldown again, a gesture 'next' was dispatched on the phrase 'next'.
C15_Witness ==
    /\ phrase_buffer = <<W_open, W_presentation, W_next>>
    /\ dispatch_log = << <<"OPEN_PRESENTATION", 0>>, <<"NEXT_SLIDE", 0>>,
                         <<"NEXT_SLIDE", Cooldown>> >>
    /\ \E i \in 1..Len(tasks) :
          /\ tasks[i].source = "gesture"
          /\ tasks[i].content = W_next

\* The words of the k-th message of CapSpec.
CapWords(k) == Split(Lower(Strip(CapMessages[k].fields["content"].v)))

\* The word 'next' is at place p of the phrase window, arrived at most
\* PhraseWindow seconds ago, and NEXT_SLIDE was marked at least Cooldown ago.
NextWaits(p) ==
    /\ phrase_buffer[p] = W_next
    /\ now - phrase_timestamps[p] <= PhraseWindow
    /\ "NEXT_SLIDE" \in DOMAIN triggered_phrases
    /\ now - triggered_phrases["NEXT_SLIDE"] >= Cooldown

\* A step that creates a task leaves in the phrase window the words of the
\* phrase the task was made on, and a task's run does not touch the window.
NotConsumed ==
    /\ \A i \in NewTasks :
          tasks'[i].source = "audio_stt" =>
              Lower(Join(phrase_buffer')) = tasks'[i].content
    /\ nMsgs' = nMsgs => UNCHANGED << phrase_buffer, phrase_timestamps >>

\* C16 (as claimed): dispatching leaves the phrase window unchanged, and any
\* audio_stt word event that arrives with 'next' still at most PhraseWindow
\* seconds old and NEXT_SLIDE off cooldown dispatches NEXT_SLIDE again.
C16_RefiresWithinWindow ==
    [][/\ NotConsumed
       /\ nMsgs' # nMsgs =>
             \A p \in 1..Len(phrase_buffer) : \A k \in {1, 2} :
                \/ Dispatched("NEXT_SLIDE")
                \/ ~ ( /\ NextWaits(p)
                       /\ \E c \in CONNECTED_CLIENTS :
                             HandleMessage(c, CapMessages[k]) )]_vars

\* C16 (amended): the same, for a 'next' that the event's words do not push
\* out of the window: from 'next' on, the window's words and the event's
\* words are at most BufferMaxLen.
C16_RefiresUnlessPushedOut ==
    [][/\ NotConsumed
       /\ nMsgs' # nMsgs =>
             \A p \in 1..Len(phrase_buffer) : \A k \in 1..Len(CapMessages) :
                \/ Dispatched("NEXT_SLIDE")
                \/ ~ ( /\ NextWaits(p)
                       /\ Len(phrase_buffer) - p + 1 + Len(CapWords(k))
                             <= BufferMaxLen
                       /\ \E c \in CONNECTED_CLIENTS :
                             HandleMessage(c, CapMessages[k]) )]_vars

\* One 'next' arrived at 0 and was dispatched; 'open' arrived Cooldown later
\* and NEXT_SLIDE was dispatched again.
C16_Witness ==
    /\ phrase_buffer = <<W_next, W_open>>
    /\ phrase_timestamps = <<0, Cooldown>>
    /\ dispatch_log = << <<"NEXT_SLIDE", 0>>, <<"NEXT_SLIDE", Cooldown>> >>

\* Word i of a window with timestamp i.
Pairs(buf, ts) == [i \in 1..Len(buf) |-> <<buf[i], ts[i]>>]

\* Each word paired with time t.
ArrivedAt(words, t) == [i \in 1..Len(words) |-> <<words[i], t>>]

\* C17: phrase_buffer and phrase_timestamps always have the same length, at
\* most BufferMaxLen, and the timestamps never decrease from front to back and
\* are never in the future; an audio_stt event leaves a suffix of (the old
\* pairs, then each of its words paired with the time of the event), so
\* every timestamp is the arrival time of its word, and leaves no entry
\* older than PhraseWindow.
C17_BufferPairing ==
    [][/\ Len(phrase_buffer') = Len(phrase_timestamps')
       /\ Len(phrase_buffer') <= BufferMaxLen
       /\ \A i \in 1..Len(phrase_timestamps') :
             /\ phrase_timestamps'[i] <= now'
             /\ i > 1 => phrase_timestamps'[i - 1] <= phrase_timestamps'[i]
       /\ nMsgs' # nMsgs =>
             /\ \A i \in 1..Len(phrase_timestamps') :
                   now - phrase_timestamps'[i] <= PhraseWindow
             /\ \A k \in 1..Len(CapMessages) :
                   (\E c \in CONNECTED_CLIENTS : HandleMessage(c, CapMessages[k]))
                   => IsSuffix(Pairs(phrase_buffer', phrase_timestamps'),
                               Pairs(phrase_buffer, phrase_timestamps)
                                   \o ArrivedAt(CapWords(k), now))]_vars

\* Eleven words arrived at 1 and 'open' at 4: the window is full, 'a' and
\* 'next' were pushed out together with their timestamps, and nine words
\* exactly PhraseWindow old are kept.
C17_Witness ==
    /\ phrase_buffer = Tail(TenWords) \o <<W_open>>
    /\ phrase_timestamps = <<1, 1, 1, 1, 1, 1, 1, 1, 1, 4>>

\* The step began the handling of a gesture.
GestureHandled == Len(handled') > Len(handled)

\* The step ended the handling of a gesture.
GestureFinished == g_pc \in {"sending", "reconnect"} /\ g_pc' = "recv"

\* C18: in one client session a processed frame handles at most one gesture,
\* a 'next' or 'previous' read off a fresh track; any two handled gestures
\* are in different frames and more than GestureCooldown seconds apart; and
\* when the handling of a gesture ends its track's action is None.
C18_GestureRateLimit ==
    [][/\ Len(handled') <= Len(handled) + 1
       /\ GestureHandled =>
             /\ nFrames' = nFrames + 1
             /\ handled'[Len(handled')].content \in {W_next, W_previous}
             /\ handled'[Len(handled')].content =
                   ActionToSend(tracks'[trk'].action)
             /\ tracks'[trk'].fresh
             /\ \A i \in 1..Len(handled) :
                   /\ handled[i].frame < handled'[Len(handled')].frame
                   /\ handled'[Len(handled')].time - handled[i].time
                         > GestureCooldown
       /\ GestureFinished =>
             /\ tracks'[trk].action = "None"
             /\ last_gesture_time' = handled[Len(handled)].time]_vars

\* Two gestures were handled GestureCooldown + 1 seconds apart, with a frame
\* between them in which none was, and the second one's track is cleared.
C18_Witness ==
    /\ Len(handled) = 2
    /\ handled[2].time - handled[1].time = GestureCooldown + 1
    /\ handled[2].frame = handled[1].frame + 2
    /\ g_pc = "recv"
    /\ last_gesture_time = handled[2].time
    /\ \E i \in 1..Len(tracks) : tracks[i].action = "None"

\* C19: a swipe recognized while target_websocket is None or not open goes
\* to one connect_to_target and sends nothing; when that call returns,
\* connected or not, the gesture has not been and is not sent, the cooldown
\* timer is set to the gesture's time, the track's action is None and the
\* session is at recv again.  No connect attempt is made elsewhere in the
\* loop, and the session ends only before the loop or when recv fails.
C19_DroppedWhenTargetDown ==
    [][/\ (GestureHandled /\ ~TargetIsOpen) =>
             /\ g_pc' = "reconnect"
             /\ UNCHANGED << sent_to_target, targetAttempts, target_websocket >>
       /\ (g_pc = "reconnect" /\ g_pc' # g_pc) =>
             /\ targetAttempts' = targetAttempts + 1
             /\ targetUp <=> (target_websocket' # None
                                /\ target_websocket' \in targetOpen')
             /\ sent_to_target' = sent_to_target
             /\ last_gesture_time' = current_time
             /\ current_time = handled[Len(handled)].time
             /\ tracks'[trk].action = "None"
             /\ g_pc' = "recv"
       /\ targetAttempts' # targetAttempts => g_pc \in {"idle", "reconnect"}
       /\ (g_pc' = "ended" /\ g_pc # "ended") => g_pc \in {"idle", "recv"}]_vars

\* A swipe was recognized with the target down; the reconnect succeeded, the
\* gesture was not sent, the timer is reset, the track cleared, and the
\* session waits for the next frame.
C19_Witness ==
    /\ Len(handled) = 1
    /\ nFrames = handled[1].frame
    /\ targetAttempts = 2
    /\ TargetIsOpen
    /\ sent_to_target = <<>>
    /\ last_gesture_time = handled[1].time
    /\ g_pc = "recv"
    /\ \E i \in 1..Len(tracks) : tracks[i].action = "None"

=============================================================================
